---- MODULE Spec2Model ----
(***************************************************************************)
(* A model of the ProtocolLLM evaluation pipeline.                         *)
(*                                                                         *)
(*   SpecDispatch : the prompt dispatcher, src/src/main.py, with the       *)
(*                  backend selection and the per-prompt loops of          *)
(*                  prompt_gpt / prompt_gpt_iter, src/src/prompt.py.       *)
(*   SpecExtract  : the code extractor, src/src/convert.py, on one answer  *)
(*                  string at a time.                                      *)
(*   SpecWalk     : process_json_files of src/src/convert.py over a tree   *)
(*                  of JSON files, run twice.                              *)
(*   SpecSynth    : the synthesis runner, src/src/synth/synth.py, over a   *)
(*                  tree of extracted files.                               *)
(*   SpecMetrics  : parse_metrics of src/src/rpt.py and src/src/total.py   *)
(*                  on one metrics file.                                   *)
(*   SpecSummary  : generate_grouped_summary of src/src/rpt.py on the      *)
(*                  metrics records of a report tree.                      *)
(*                                                                         *)
(* Text (model names, answers, file names) is a sequence of lexemes: each  *)
(* lexeme stands for the characters written in its string, and the        *)
(* substring tests and regular expressions of the source are computed on   *)
(* these sequences position by position.                                   *)
(***************************************************************************)
EXTENDS Integers, Sequences, FiniteSets, TLC

VARIABLES
    \* ---- dispatcher (main.py, prompt.py)
    args,            \* the parsed command line: model, protocol, use_rag, iter
    section,         \* what the configuration holds under args.protocol
    fs,              \* the files and directories main.py tests, reads, writes
    pc,              \* position of main.py
    prompts,         \* main.py: prompts
    call,            \* the running prompt_gpt / prompt_gpt_iter call
    calls,           \* every call of prompt_gpt / prompt_gpt_iter made so far
    sent,            \* every backend request made so far, in order
    output,          \* main.py: output, once prompt_gpt returned
    refined_output,  \* main.py: refined_output, once prompt_gpt_iter returned
    lint,            \* parse_lint_report: the three lists, and the lines read
    refined_prompt,  \* main.py: refined_prompt (one conversation)
    error,           \* the exception that ended the run, "none" otherwise
    \* ---- extractor (convert.py)
    value,           \* the answer string being processed
    code,            \* convert.py: code
    matched,         \* the three searches done so far: whether each matched, its result
    extracted,       \* code as the searches left it, before the cut
    epc,             \* position of the extractor on this answer
    written,         \* the files written for this answer: name and content
    \* ---- process_json_files over a tree (convert.py)
    tree,            \* the input tree: its files in the order os.walk lists them
    run,             \* which run of the script this is: 1 or 2
    wi,              \* the file of the tree the walk is at
    items,           \* data.items() still to be looped over, for the open file
    wpc,             \* position of process_json_files
    out,             \* the output tree: path -> content
    first_out,       \* the output tree as the first run left it
    wlog,            \* what the run wrote and what it reported, in order
    werror,          \* the exception that ended the run, "none" otherwise
    \* ---- run_synth_on_files (synth/synth.py)
    stree,           \* the extracted-code tree: its files in os.walk order
    si,              \* the file of the tree the runner is at
    spc,             \* position of run_synth_on_files
    cmds,            \* the external commands run so far, in order
    metric_file,     \* reports/metrics.txt: whether it exists, what it holds
    reports,         \* the mirrored report tree: path -> metrics
    \* ---- parse_metrics (rpt.py, total.py)
    variant,         \* which of the two scripts parses: "rpt" or "total"
    mname,           \* basename of metrics_path
    mfile,           \* the metrics file: whether it exists, its lines
    mi,              \* the line parse_metrics is at
    metrics,         \* parse_metrics: metrics
    mpc,             \* position of parse_metrics
    \* ---- generate_grouped_summary (rpt.py)
    all_metrics,     \* the metrics records collected from the report tree
    df,              \* the data frame, with its pass columns
    grouped,         \* the summary rows
    gpc              \* position of generate_grouped_summary

dvars == <<args, section, fs, pc, prompts, call, calls, sent, output,
           refined_output, lint, refined_prompt, error>>
evars == <<value, code, matched, extracted, epc, written>>
wvars == <<tree, run, wi, items, wpc, out, first_out, wlog, werror>>
svars == <<stree, si, spc, cmds, metric_file, reports>>
mvars == <<variant, mname, mfile, mi, metrics, mpc>>
gvars == <<all_metrics, df, grouped, gpc>>
pvars == <<wvars, svars, mvars, gvars>>
vars == <<dvars, evars, pvars>>

(***************************************************************************)
(* Bounds of the model.                                                    *)
(***************************************************************************)
MaxPrompts == 2
MaxLintLines == 1
MaxPieces == 4

(***************************************************************************)
(* Text helpers.                                                           *)
(***************************************************************************)

\* s[from..to], empty when from > to
Slice(s, from, to) == IF from > to THEN <<>> ELSE SubSeq(s, from, to)

\* Python: s[p:p+len(sub)] == sub, positions from 1
MatchAt(s, sub, p) ==
    /\ p >= 1
    /\ p + Len(sub) - 1 <= Len(s)
    /\ \A k \in 1..Len(sub) : s[p + k - 1] = sub[k]

\* Python: sub in s
Contains(sub, s) == \E p \in 1..(Len(s) + 1) : MatchAt(s, sub, p)

(***************************************************************************)
(* Dispatcher: model names and backend selection (prompt.py).              *)
(***************************************************************************)

\* The model names --model is drawn from, cut into lexemes.
ModelNames ==
    { <<"alias", "-", "code">>,
      <<"gemini", "-pro">>,
      <<"agentica", "/", "deepcoder">>,
      <<"gpt", "-4">>,
      <<"o3", "-mini">>,
      <<"claude", "-3">>,
      <<"qwen", "-2.5-", "code", "r-32b">>,
      <<"abd", "-7b">>,
      <<"llama3">> }

\* prompt_gpt: the if/elif chain over "x in model_name"
GptBranch(model_name) ==
    IF Contains(<<"alias">>, model_name) THEN "alias"
    ELSE IF Contains(<<"gemini">>, model_name) THEN "gemini"
    ELSE IF Contains(<<"deepcoder">>, model_name)
            \/ Contains(<<"agentica">>, model_name) THEN "openrouter"
    ELSE IF Contains(<<"gpt">>, model_name)
            \/ Contains(<<"o3">>, model_name) THEN "openai"
    ELSE IF Contains(<<"claude">>, model_name) THEN "claude"
    ELSE IF Contains(<<"qwen">>, model_name)
            \/ Contains(<<"code">>, model_name)
            \/ Contains(<<"deepseek">>, model_name) THEN "ollama"
    ELSE "unsupported"

\* prompt_gpt_iter: the if/elif chain; the final else is the Groq fallback
IterBranch(model_name) ==
    IF Contains(<<"abd">>, model_name) THEN "abd"
    ELSE IF Contains(<<"gpt">>, model_name) THEN "openai"
    ELSE IF Contains(<<"qwen", "-2.5-", "code", "r-32b">>, model_name)
        THEN "ollama32"
    ELSE IF Contains(<<"alias", "-", "code">>, model_name) THEN "ollama14"
    ELSE "fallback"

\* What one backend request can come to.  "ok": a success response;
\* "http_error": a response whose status is not 200 (requests.post only);
\* "exception": the request raised (for openai.ChatCompletion the library
\* raises its own OpenAIError for a failed request).
GptOutcomes(branch) ==
    IF branch = "alias" THEN {"ok", "http_error", "exception"}
    ELSE {"ok", "exception"}

IterOutcomes(branch) ==
    IF branch = "abd" THEN {"ok", "http_error", "exception"}
    ELSE {"ok", "exception"}

\* Whether the branch's loop body catches an exception of the request.
\* The alias branch of prompt_gpt (lines 103-123) has no try at all.
GptCatches(branch) == branch \in {"gemini", "openrouter", "openai", "claude", "ollama"}

\* prompt_gpt_iter: the abd branch (lines 280-305) has no try either.
IterCatches(branch) == branch \in {"openai", "ollama32", "ollama14"}

\* The error text stored in place of an answer.
GptErrorPrefix(branch, outcome) ==
    IF branch = "alias" THEN "Error: <status> - <text>"
    ELSE IF branch = "gemini" THEN "Gemini API Error: "
    ELSE IF branch = "openrouter" THEN "OpenRouter Error: "
    ELSE IF branch = "openai" THEN "OpenAI Error: "
    ELSE IF branch = "claude" THEN "Claude API Error: "
    ELSE "Ollama Error: "

IterErrorPrefix(branch, outcome) ==
    IF branch = "abd" THEN "Error: <status> - <text>" ELSE "Error: "

\* A slip in the key's index: keys counted from one.
PromptKeyOneBased(i) == <<"prompt", i + 1>>

\* f"prompt_{i}", f"answer_{i}"
PromptKey(i) == <<"prompt", i>>
AnswerKey(i) == <<"answer", i>>

\* A value of a response record: the prompt as sent, the answer text of a
\* success response, or the error text stored in its place.
PromptValue(input_prompt) == [kind |-> "prompt", text |-> "", body |-> input_prompt]
OkAnswer(input_prompt) == [kind |-> "ok", text |-> "content", body |-> input_prompt]
ErrAnswer(prefix) == [kind |-> "error", text |-> prefix, body |-> <<>>]

\* ans_dict = {}
EmptyDict == [k \in {} |-> ErrAnswer("")]

\* ans_dict[f"prompt_{i}"] = input_prompt; ans_dict[f"answer_{i}"] = answer
Record(ans_dict, i, input_prompt, answer) ==
    [k \in DOMAIN ans_dict \cup {PromptKey(i), AnswerKey(i)} |->
        IF k = PromptKey(i) THEN PromptValue(input_prompt)
        ELSE IF k = AnswerKey(i) THEN answer
        ELSE ans_dict[k]]

\* Python: bool(x) of a dict or a list
Truthy(x) == DOMAIN x # {}

(***************************************************************************)
(* Dispatcher: the command line, the configuration and the files.          *)
(***************************************************************************)

Protocols == {"i2c", "can"}

\* main.py: the keys of protocol_files and of protocol_docs
KnownProtocols == {"i2c", "spi", "axi", "uart"}

\* The prompt texts of a configuration section with n named prompts.
PromptText(k) == <<"P", k>>
SectionOf(n) == [k \in 1..n |-> PromptText(k - 1)]

\* What config holds under the selected protocol: no such key, a value that
\* is not a mapping (a list, a string, an empty value), or a mapping of named
\* prompts, given by its values in order.
Absent == [kind |-> "absent", values |-> <<>>]
NotMapping == [kind |-> "not_mapping", values |-> <<>>]
Mapping(n) == [kind |-> "mapping", values |-> SectionOf(n)]
Sections == {Absent, NotMapping} \cup {Mapping(n) : n \in 0..MaxPrompts}

\* [v for v in config.get(protocol, {}).values()] under try/except
\* AttributeError: the list of prompts, or the exit.
LoadPrompts(sec) ==
    IF sec.kind = "not_mapping"
    THEN [exit |-> TRUE, prompts |-> <<>>]
    ELSE [exit |-> FALSE, prompts |-> sec.values]

\* A response record left by an earlier run: of one prompt, or of none.
EarlierRecord == Record(EmptyDict, 0, PromptText(0), OkAnswer(PromptText(0)))
NoFile == [exists |-> FALSE, content |-> EmptyDict]
File(content) == [exists |-> TRUE, content |-> content]

\* The files main.py meets.  An output file lies in its directory.
FileSystems ==
    { [output |-> o, outdir |-> d, lintfile |-> l, refined |-> NoFile,
       refdir |-> r, writes |-> <<>>] :
        o \in {NoFile, File(EarlierRecord), File(EmptyDict)},
        d \in BOOLEAN, l \in BOOLEAN, r \in BOOLEAN }

\* The lines a lint report is read from, each ending in its newline.
LintLines ==
    { <<"Error", "\n">>, <<"Warning", "\n">>, <<"Syntax", "\n">>,
      <<"info", "\n">>, <<"Error", "Warning", "\n">>,
      <<"Warning", "Syntax", "\n">>, <<"info", "Syntax", "\n">> }

IsSpace(c) == c \in {" ", "\n"}

\* Python: s.strip()
RECURSIVE LStrip(_)
LStrip(s) == IF s # <<>> /\ IsSpace(Head(s)) THEN LStrip(Tail(s)) ELSE s
RECURSIVE RStrip(_)
RStrip(s) ==
    IF s # <<>> /\ IsSpace(s[Len(s)]) THEN RStrip(Slice(s, 1, Len(s) - 1)) ELSE s
Strip(s) == RStrip(LStrip(s))

NoCall == [fn |-> "none", ret |-> "", i |-> 0, inputs |-> <<>>, ans_dict |-> EmptyDict]
NoLint == [errors |-> <<>>, warnings |-> <<>>, syntax_issues |-> <<>>]

ExtractIdle ==
    /\ value = <<>>
    /\ code = <<>>
    /\ matched = <<>>
    /\ extracted = <<>>
    /\ epc = "idle"
    /\ written = <<>>

\* no file at all in the output tree
EmptyOut == [p \in {} |-> <<>>]

\* Every part of the pipeline but the named one is as before its start.
PipelineIdle(part) ==
    /\ part # "walk" =>
        /\ tree = <<>>
        /\ run = 0
        /\ wi = 0
        /\ items = <<>>
        /\ wpc = "idle"
        /\ out = EmptyOut
        /\ first_out = EmptyOut
        /\ wlog = <<>>
        /\ werror = "none"
    /\ part # "synth" =>
        /\ stree = <<>>
        /\ si = 0
        /\ spc = "idle"
        /\ cmds = <<>>
        /\ metric_file = [exists |-> FALSE, of |-> 0, complete |-> FALSE]
        /\ reports = EmptyOut
    /\ part # "metrics" =>
        /\ variant = "none"
        /\ mname = <<>>
        /\ mfile = [exists |-> FALSE, lines |-> <<>>]
        /\ mi = 0
        /\ metrics = EmptyOut
        /\ mpc = "idle"
    /\ part # "summary" =>
        /\ all_metrics = <<>>
        /\ df = <<>>
        /\ grouped = <<>>
        /\ gpc = "idle"

InitDispatch ==
    /\ args \in [model : ModelNames, protocol : Protocols,
                 use_rag : BOOLEAN, iter : BOOLEAN]
    /\ section \in Sections
    /\ fs \in FileSystems
    /\ fs.output.exists => fs.outdir
    /\ pc = "config"
    /\ prompts = <<>>
    /\ call = NoCall
    /\ sent = <<>>
    /\ calls = <<>>
    /\ output = [returned |-> FALSE, record |-> EmptyDict]
    /\ refined_output = [returned |-> FALSE, record |-> EmptyDict]
    /\ lint = [lines |-> 0, result |-> NoLint]
    /\ refined_prompt = <<>>
    /\ error = "none"
    /\ ExtractIdle
    /\ PipelineIdle("dispatch")

\* An uncaught exception, or sys.exit, ends the run.
Crash(kind) ==
    /\ pc' = "done"
    /\ error' = kind
    /\ call' = NoCall

\* main.py lines 35-46
LoadConfig ==
    /\ pc = "config"
    /\ LET r == LoadPrompts(section) IN
        IF r.exit
        THEN /\ Crash("SystemExit: Invalid configuration format")
             /\ UNCHANGED prompts
        ELSE /\ prompts' = r.prompts
             /\ pc' = "branch"
             /\ UNCHANGED <<call, error>>
    /\ UNCHANGED <<args, section, fs, sent, output, lint, refined_prompt,
                   calls, refined_output, evars, pvars>>

\* Entering prompt_gpt(prompts, ...): ans_dict = {}
StartGpt(ret) ==
    /\ pc' = "prompt_gpt"
    /\ call' = [fn |-> "prompt_gpt", ret |-> ret, i |-> 0, inputs |-> prompts,
                ans_dict |-> EmptyDict]
    /\ calls' = Append(calls, [fn |-> "prompt_gpt", n |-> Len(prompts)])

\* main.py lines 52-55: --iter, and no output file yet
IterGenerate ==
    /\ pc = "branch"
    /\ args.iter
    /\ ~fs.output.exists
    /\ StartGpt("write_initial")
    /\ UNCHANGED <<args, section, fs, prompts, sent, output, lint,
                   refined_prompt, error, refined_output, evars, pvars>>

\* main.py lines 52-53: --iter, the output file is there
IterReuse ==
    /\ pc = "branch"
    /\ args.iter
    /\ fs.output.exists
    /\ pc' = "lint_lookup"
    /\ UNCHANGED <<args, section, fs, prompts, call, sent, output, lint,
                   refined_prompt, error, calls, refined_output, evars, pvars>>

\* get_rag (prompt.py lines 67-74): every prompt prefixed by the retrieved text
RagPrompts(ps) == [k \in DOMAIN ps |-> <<"ctx", "\n">> \o ps[k]]

\* main.py lines 129-138: the retrieval either prefixes the prompts or raises
\* (no document for the protocol, a failed embedding request)
UseRag ==
    /\ pc = "branch"
    /\ ~args.iter
    /\ args.use_rag
    /\ \E ok \in BOOLEAN :
        IF ok /\ args.protocol \in KnownProtocols
        THEN /\ prompts' = RagPrompts(prompts)
             /\ pc' = "generate"
             /\ UNCHANGED <<call, error>>
        ELSE /\ Crash("Exception: get_rag")
             /\ UNCHANGED prompts
    /\ UNCHANGED <<args, section, fs, sent, output, lint, refined_prompt,
                   calls, refined_output, evars, pvars>>

\* main.py line 140
Generate ==
    /\ \/ pc = "branch" /\ ~args.iter /\ ~args.use_rag
       \/ pc = "generate"
    /\ StartGpt("write_output")
    /\ UNCHANGED <<args, section, fs, prompts, sent, output, lint,
                   refined_prompt, error, refined_output, evars, pvars>>

(***************************************************************************)
(* prompt_gpt (prompt.py lines 76-262), one loop iteration per step.       *)
(***************************************************************************)

\* answer, as the branch's loop body computes it from the request's outcome
GptAnswer(branch, outcome, input_prompt) ==
    IF outcome = "ok" THEN OkAnswer(input_prompt)
    ELSE ErrAnswer(GptErrorPrefix(branch, outcome))

\* Whether the outcome leaves the loop body as an exception.
GptPropagates(branch, outcome) == outcome = "exception" /\ ~GptCatches(branch)

\* prompt.py lines 241-242: raise ValueError(f"Unsupported model name: ...")
GptUnsupported ==
    /\ pc = "prompt_gpt"
    /\ GptBranch(args.model) = "unsupported"
    /\ Crash("ValueError: Unsupported model name")
    /\ UNCHANGED <<args, section, fs, prompts, sent, output, lint,
                   refined_prompt, calls, refined_output, evars, pvars>>

\* One iteration of "for i, input_prompt in enumerate(prompts)" in the
\* selected branch: the request, then the two assignments to ans_dict.
GptRequest ==
    /\ pc = "prompt_gpt"
    /\ GptBranch(args.model) # "unsupported"
    /\ call.i < Len(call.inputs)
    /\ LET branch == GptBranch(args.model)
           input_prompt == call.inputs[call.i + 1]
       IN \E outcome \in GptOutcomes(branch) :
            /\ sent' = Append(sent, [fn |-> "prompt_gpt", branch |-> branch,
                                     i |-> call.i, outcome |-> outcome])
            /\ IF GptPropagates(branch, outcome)
               THEN Crash("Exception: request failed")
               ELSE /\ call' = [call EXCEPT
                          !.i = call.i + 1,
                          !.ans_dict = Record(call.ans_dict, call.i, input_prompt,
                                              GptAnswer(branch, outcome, input_prompt))]
                    /\ UNCHANGED <<pc, error>>
    /\ UNCHANGED <<args, section, fs, prompts, output, lint, refined_prompt,
                   calls, refined_output, evars, pvars>>

\* prompt.py line 262: return ans_dict
GptReturn ==
    /\ pc = "prompt_gpt"
    /\ GptBranch(args.model) # "unsupported"
    /\ call.i = Len(call.inputs)
    /\ output' = [returned |-> TRUE, record |-> call.ans_dict]
    /\ pc' = call.ret
    /\ call' = NoCall
    /\ UNCHANGED <<args, section, fs, prompts, sent, lint, refined_prompt,
                   error, calls, refined_output, evars, pvars>>

(***************************************************************************)
(* main.py: writing the output, and the refinement path (lines 56-127).    *)
(***************************************************************************)

\* main.py lines 56-58: open(output_filename, "w") with no makedirs before it
WriteInitial ==
    /\ pc = "write_initial"
    /\ IF fs.outdir
       THEN /\ fs' = [fs EXCEPT !.output = File(output.record),
                                !.writes = Append(fs.writes, "output")]
            /\ pc' = "lint_lookup"
            /\ UNCHANGED <<call, error>>
       ELSE /\ Crash("FileNotFoundError: output")
            /\ UNCHANGED fs
    /\ UNCHANGED <<args, section, prompts, sent, output, lint, refined_prompt,
                   calls, refined_output, evars, pvars>>

\* main.py lines 141-145: makedirs, then the write
WriteOutput ==
    /\ pc = "write_output"
    /\ fs' = [fs EXCEPT !.outdir = TRUE,
                        !.output = File(output.record),
                        !.writes = Append(fs.writes, "output")]
    /\ pc' = "done"
    /\ UNCHANGED <<args, section, prompts, call, sent, output, lint,
                   refined_prompt, error, calls, refined_output, evars, pvars>>

\* A slip in the gate: the report's existence not tested.
LintReportExistsAlways(files) == TRUE

\* main.py line 71: os.path.exists(lint_filename)
LintReportExists(files) == files.lintfile

\* main.py lines 61-73: protocol_files.get gives None for another protocol,
\* and os.path.join of None raises TypeError
LintLookup ==
    /\ pc = "lint_lookup"
    /\ IF args.protocol \notin KnownProtocols
       THEN Crash("TypeError: join")
       ELSE /\ pc' = IF LintReportExists(fs) THEN "parse_lint" ELSE "done"
            /\ UNCHANGED <<call, error>>
    /\ UNCHANGED <<args, section, fs, prompts, sent, output, lint,
                   refined_prompt, calls, refined_output, evars, pvars>>

\* parse_lint_report, lines 83-88: the if/elif chain on one line
Classify(result, line) ==
    IF Contains(<<"Error">>, line)
    THEN [result EXCEPT !.errors = Append(@, Strip(line))]
    ELSE IF Contains(<<"Warning">>, line)
    THEN [result EXCEPT !.warnings = Append(@, Strip(line))]
    ELSE IF Contains(<<"Syntax">>, line)
    THEN [result EXCEPT !.syntax_issues = Append(@, Strip(line))]
    ELSE result

\* parse_lint_report, lines 82-88: one line read from the report
ParseLintLine ==
    /\ pc = "parse_lint"
    /\ lint.lines < MaxLintLines
    /\ \E line \in LintLines :
        lint' = [lines |-> lint.lines + 1, result |-> Classify(lint.result, line)]
    /\ UNCHANGED <<args, section, fs, pc, prompts, call, sent, output,
                   refined_prompt, error, calls, refined_output, evars, pvars>>

\* parse_lint_report, lines 89-98: the end of the file, or an exception of the
\* read, which is caught; either way the dictionary of the three lists returns
ParseLintEnd ==
    /\ pc = "parse_lint"
    /\ pc' = "check_errors"
    /\ UNCHANGED <<args, section, fs, prompts, call, sent, output, lint,
                   refined_prompt, error, calls, refined_output, evars, pvars>>

\* "\n".join(msg for msgs in errors.values() for msg in msgs)
RECURSIVE Join(_)
Join(msgs) ==
    IF msgs = <<>> THEN <<>>
    ELSE IF Len(msgs) = 1 THEN msgs[1]
    ELSE msgs[1] \o <<"\n">> \o Join(Tail(msgs))

CombinedErrors(errors) ==
    Join(errors.errors \o errors.warnings \o errors.syntax_issues)

\* main.py lines 106-117: the conversation of the refinement request
RefinedPrompt(errors, previous_output) ==
    << [role |-> "user", content |-> previous_output[PromptKey(0)].body],
       [role |-> "assistant", content |-> previous_output[AnswerKey(0)].body],
       [role |-> "user",
        content |-> <<"Refine the following code to fix these errors:", "\n", "\n">>
                    \o CombinedErrors(errors)
                    \o <<". Correct the entire code. Give full code as the output.">>] >>

\* main.py line 101: "if not errors", errors being what parse_lint_report
\* returned: the dictionary of the three lists
NoRefinementNeeded(errors) == ~Truthy(errors)

\* main.py lines 100-121
Refine ==
    /\ pc = "check_errors"
    /\ LET errors == lint.result
           previous_output == fs.output.content
       IN IF NoRefinementNeeded(errors)
          THEN /\ pc' = "done"
               /\ UNCHANGED <<call, calls, error, refined_prompt>>
          ELSE IF {PromptKey(0), AnswerKey(0)} \subseteq DOMAIN previous_output
          THEN /\ refined_prompt' = RefinedPrompt(errors, previous_output)
               /\ pc' = "prompt_gpt_iter"
               /\ call' = [fn |-> "prompt_gpt_iter", ret |-> "write_refined",
                           i |-> 0, inputs |-> <<refined_prompt'>>,
                           ans_dict |-> EmptyDict]
               /\ calls' = Append(calls, [fn |-> "prompt_gpt_iter", n |-> 1])
               /\ UNCHANGED error
          ELSE /\ Crash("KeyError: prompt_0")
               /\ UNCHANGED <<calls, refined_prompt>>
    /\ UNCHANGED <<args, section, fs, prompts, sent, output, lint,
                   refined_output, evars, pvars>>

(***************************************************************************)
(* prompt_gpt_iter (prompt.py lines 265-366), one loop iteration per step. *)
(***************************************************************************)

IterAnswer(branch, outcome, input_prompt) ==
    IF outcome = "ok" THEN OkAnswer(input_prompt)
    ELSE ErrAnswer(IterErrorPrefix(branch, outcome))

IterPropagates(branch, outcome) == outcome = "exception" /\ ~IterCatches(branch)

\* prompt.py lines 350-364: the fallback branch uses the global "client",
\* whose assignment (lines 17-20) is commented out: evaluating it raises
\* NameError in the first iteration, before any request
IterFallback ==
    /\ pc = "prompt_gpt_iter"
    /\ IterBranch(args.model) = "fallback"
    /\ call.i < Len(call.inputs)
    /\ Crash("NameError: client")
    /\ UNCHANGED <<args, section, fs, prompts, sent, output, lint,
                   refined_prompt, calls, refined_output, evars, pvars>>

IterRequest ==
    /\ pc = "prompt_gpt_iter"
    /\ IterBranch(args.model) # "fallback"
    /\ call.i < Len(call.inputs)
    /\ LET branch == IterBranch(args.model)
           input_prompt == call.inputs[call.i + 1]
       IN \E outcome \in IterOutcomes(branch) :
            /\ sent' = Append(sent, [fn |-> "prompt_gpt_iter", branch |-> branch,
                                     i |-> call.i, outcome |-> outcome])
            /\ IF IterPropagates(branch, outcome)
               THEN Crash("Exception: request failed")
               ELSE /\ call' = [call EXCEPT
                          !.i = call.i + 1,
                          !.ans_dict = Record(call.ans_dict, call.i, input_prompt,
                                              IterAnswer(branch, outcome, input_prompt))]
                    /\ UNCHANGED <<pc, error>>
    /\ UNCHANGED <<args, section, fs, prompts, output, lint, refined_prompt,
                   calls, refined_output, evars, pvars>>

\* prompt.py line 366: return ans_dict
IterReturn ==
    /\ pc = "prompt_gpt_iter"
    /\ call.i = Len(call.inputs)
    /\ refined_output' = [returned |-> TRUE, record |-> call.ans_dict]
    /\ pc' = call.ret
    /\ call' = NoCall
    /\ UNCHANGED <<args, section, fs, prompts, sent, lint, refined_prompt,
                   error, calls, output, evars, pvars>>

\* main.py lines 118-127: open(refined_output_filename, "w"), no makedirs
WriteRefined ==
    /\ pc = "write_refined"
    /\ IF fs.refdir
       THEN /\ fs' = [fs EXCEPT !.refined = File(refined_output.record),
                                !.writes = Append(fs.writes, "refined")]
            /\ pc' = "done"
            /\ UNCHANGED <<call, error>>
       ELSE /\ Crash("FileNotFoundError: refined")
            /\ UNCHANGED fs
    /\ UNCHANGED <<args, section, prompts, sent, output, lint, refined_prompt,
                   calls, refined_output, evars, pvars>>

NextDispatch ==
    \/ LoadConfig
    \/ IterGenerate
    \/ IterReuse
    \/ UseRag
    \/ Generate
    \/ GptUnsupported
    \/ GptRequest
    \/ GptReturn
    \/ WriteInitial
    \/ WriteOutput
    \/ LintLookup
    \/ ParseLintLine
    \/ ParseLintEnd
    \/ Refine
    \/ IterFallback
    \/ IterRequest
    \/ IterReturn
    \/ WriteRefined

SpecDispatch == InitDispatch /\ [][NextDispatch]_vars

(***************************************************************************)
(* Properties of the dispatcher.                                           *)
(***************************************************************************)

Requests(fn) == {k \in DOMAIN sent : sent[k].fn = fn}
Calls(fn) == {k \in DOMAIN calls : calls[k].fn = fn}
Wrote(name) == \E k \in DOMAIN fs.writes : fs.writes[k] = name

\* The lint report, as far as it was read, has a line classified as Error,
\* Warning or Syntax.
Classified ==
    lint.result.errors \o lint.result.warnings \o lint.result.syntax_issues # <<>>

\* C1: in an --iter run where the lint report exists, prompt_gpt_iter is
\* called and the refined JSON file written if and only if the report has a
\* line classified as Error, Warning or Syntax; with no classified line no
\* refinement request is sent and no refined file is written.
C1_RefinementIffClassified ==
    /\ Calls("prompt_gpt_iter") # {} => Classified
    /\ Requests("prompt_gpt_iter") # {} => Classified
    /\ Wrote("refined") => Classified
    /\ (/\ args.iter
        /\ fs.lintfile
        /\ pc = "done"
        /\ error = "none"
        /\ Classified) => Wrote("refined")

\* The record prompt_gpt is filling, or has returned.
GptDict ==
    IF call.fn = "prompt_gpt" THEN call.ans_dict ELSE output.record

\* C2: in every backend branch of prompt_gpt, a failed request for prompt i
\* (an exception, a non-success response) is caught for that prompt alone:
\* answer_i holds an error string, the request is made once, and every later
\* prompt is still sent and recorded.
C2_FailureCaughtPerPrompt ==
    \A k \in Requests("prompt_gpt") :
        sent[k].outcome # "ok" =>
            /\ AnswerKey(sent[k].i) \in DOMAIN GptDict
            /\ GptDict[AnswerKey(sent[k].i)].kind = "error"
            /\ \A m \in Requests("prompt_gpt") : sent[m].i = sent[k].i => m = k
            /\ call.fn # "prompt_gpt" =>
                /\ output.returned
                /\ \A j \in 0..(Len(prompts) - 1) :
                    /\ \E m \in Requests("prompt_gpt") : sent[m].i = j
                    /\ AnswerKey(j) \in DOMAIN output.record

\* The keys a response record for n prompts must have.
KeysFor(n) ==
    {<<"prompt", i>> : i \in 0..(n - 1)} \cup {<<"answer", i>> : i \in 0..(n - 1)}

WellFormed(record, inputs) ==
    /\ DOMAIN record = KeysFor(Len(inputs))
    /\ \A i \in 0..(Len(inputs) - 1) :
        /\ record[<<"prompt", i>>].kind = "prompt"
        /\ record[<<"prompt", i>>].body = inputs[i + 1]
        /\ record[<<"answer", i>>].kind \in {"ok", "error"}

\* C3: every response record returned by prompt_gpt or prompt_gpt_iter for n
\* prompts has exactly the keys prompt_0..prompt_(n-1), answer_0..answer_(n-1),
\* prompt_i and answer_i together, and prompt_i holds the i-th input prompt.
C3_RecordKeysContiguous ==
    /\ output.returned => WellFormed(output.record, prompts)
    /\ refined_output.returned =>
        WellFormed(refined_output.record, <<refined_prompt>>)

\* A run that returned a record of several prompts, one answer of which is an
\* error string, and then a record of the refinement.
C3_Witness ==
    /\ output.returned
    /\ Len(prompts) >= 2
    /\ \E i \in 0..(Len(prompts) - 1) : output.record[AnswerKey(i)].kind = "error"
    /\ refined_output.returned

\* Whether the function finds none of its backend substrings in the name.
Unrecognised(fn) ==
    IF fn = "prompt_gpt" THEN GptBranch(args.model) = "unsupported"
    ELSE IterBranch(args.model) = "fallback"

\* C4: a call of prompt_gpt or prompt_gpt_iter whose model name has none of
\* the recognised backend substrings fails as a whole with an
\* unsupported-model error: no prompt is sent, no record is returned and no
\* output JSON file is written.
C4_UnsupportedModelFailsWhole ==
    \A fn \in {"prompt_gpt", "prompt_gpt_iter"} :
        (Calls(fn) # {} /\ Unrecognised(fn)) =>
            /\ Requests(fn) = {}
            /\ fn = "prompt_gpt" => ~output.returned /\ ~Wrote("output")
            /\ fn = "prompt_gpt_iter" => ~refined_output.returned /\ ~Wrote("refined")
            /\ call.fn # fn => error = "ValueError: Unsupported model name"

\* C5: with no section for the selected protocol, or a section that is not a
\* mapping of named prompts, the dispatcher exits with an error message
\* before any backend call and before any output JSON file is written.
C5_BadSectionExits ==
    section.kind \in {"absent", "not_mapping"} =>
        /\ sent = <<>>
        /\ fs.writes = <<>>
        /\ pc # "config" =>
            /\ pc = "done"
            /\ error = "SystemExit: Invalid configuration format"

\* C6: a run makes at most one refinement round trip, of one conversation,
\* only with --iter and only when the lint report file exists; without the
\* file no refinement request is sent and no refined file is written; and
\* the refined result is not fed into another refinement.
C6_SingleShotRefinement ==
    /\ Cardinality(Calls("prompt_gpt_iter")) <= 1
    /\ \A k \in Calls("prompt_gpt_iter") : calls[k].n = 1
    /\ Cardinality(Requests("prompt_gpt_iter")) <= 1
    /\ (~args.iter \/ ~fs.lintfile) =>
        /\ Calls("prompt_gpt_iter") = {}
        /\ Requests("prompt_gpt_iter") = {}
        /\ ~Wrote("refined")
        /\ ~fs.refined.exists
    /\ refined_output.returned => pc \in {"write_refined", "done"}

\* The refinement ran to its end: the refined file is written.
C6_Witness ==
    /\ args.iter
    /\ fs.lintfile
    /\ Cardinality(Requests("prompt_gpt_iter")) = 1
    /\ Wrote("refined")
    /\ pc = "done"

(***************************************************************************)
(* Extractor (convert.py).  An answer is a sequence of lexemes: a single   *)
(* character (the backtick, written "bq", "\n", " ", "(", ")", ";", the    *)
(* capital letter I with a dot above, U+0130, written "I-dot") or a word   *)
(* ("module", "endmodule", "systemverilog", "foo", "top").                 *)
(***************************************************************************)

\* Three backticks.
Fence == <<"bq", "bq", "bq">>

\* \w of re: the word lexemes, and the letter
IsWord(c) == c \in {"systemverilog", "module", "endmodule", "foo", "top", "I-dot"}

\* Whether the literal "module" matches in s at lexeme p: the word itself,
\* or the last six letters of "endmodule"
ModuleAt(s, p) == p \in 1..Len(s) /\ s[p] \in {"module", "endmodule"}

\* The first position >= p holding a lexeme that is not of the class, or
\* Len(s) + 1: where a greedy \s* or \w* begun at p ends
RECURSIVE SkipSpace(_, _)
SkipSpace(s, p) == IF p <= Len(s) /\ IsSpace(s[p]) THEN SkipSpace(s, p + 1) ELSE p
RECURSIVE SkipWord(_, _)
SkipWord(s, p) == IF p <= Len(s) /\ IsWord(s[p]) THEN SkipWord(s, p + 1) ELSE p

\* Python: s.find(sub, from), positions from 1, 0 for "not found"
RECURSIVE FindFrom(_, _, _)
FindFrom(s, sub, p) ==
    IF p + Len(sub) - 1 > Len(s) THEN 0
    ELSE IF MatchAt(s, sub, p) THEN p
    ELSE FindFrom(s, sub, p + 1)

NoMatch == [hit |-> FALSE, text |-> <<>>]
Match(text) == [hit |-> TRUE, text |-> text]

\* re.search(r"```systemverilog\s*(.*?)```", value, re.DOTALL): group(1).
\* The match starts at the leftmost "```systemverilog" that has a fence
\* after it; \s* takes the whitespace, (.*?) runs to the first fence.
RECURSIVE SearchTaggedFrom(_, _)
SearchTaggedFrom(s, p) ==
    IF p > Len(s) THEN NoMatch
    ELSE IF MatchAt(s, Fence \o <<"systemverilog">>, p)
            /\ FindFrom(s, Fence, SkipSpace(s, p + 4)) # 0
    THEN LET e == SkipSpace(s, p + 4)
             q == FindFrom(s, Fence, e)
         IN Match(Slice(s, e, q - 1))
    ELSE SearchTaggedFrom(s, p + 1)

SearchTagged(s) == SearchTaggedFrom(s, 1)

\* Where (.*?) starts for a fence at p: after (?:\w*\n)? when a run of word
\* characters ends in a newline, right after the fence otherwise
GenericStart(s, p) ==
    LET r == SkipWord(s, p + 3)
    IN IF r <= Len(s) /\ s[r] = "\n" THEN r + 1 ELSE p + 3

\* re.search(r"```(?:\w*\n)?(.*?)```", value, re.DOTALL): group(1)
RECURSIVE SearchGenericFrom(_, _)
SearchGenericFrom(s, p) ==
    IF p > Len(s) THEN NoMatch
    ELSE IF MatchAt(s, Fence, p) /\ FindFrom(s, Fence, p + 3) # 0
    THEN LET e == GenericStart(s, p)
             q == FindFrom(s, Fence, e)
         IN Match(Slice(s, e, q - 1))
    ELSE SearchGenericFrom(s, p + 1)

SearchGeneric(s) == SearchGenericFrom(s, 1)

\* Where "module\s+\w+\s*\(" begun at p ends (the position after "("), or 0
SpanHead(s, p) ==
    IF ~ModuleAt(s, p) THEN 0
    ELSE LET a == SkipSpace(s, p + 1)
             b == SkipWord(s, a)
             c == SkipSpace(s, b)
         IN IF a > p + 1 /\ b > a /\ c <= Len(s) /\ s[c] = "(" THEN c + 1 ELSE 0

\* re.search(r"module\s+\w+\s*\(.*?endmodule", value, re.DOTALL): group(0)
RECURSIVE SearchSpanFrom(_, _)
SearchSpanFrom(s, p) ==
    IF p > Len(s) THEN NoMatch
    ELSE IF SpanHead(s, p) # 0 /\ FindFrom(s, <<"endmodule">>, SpanHead(s, p)) # 0
    THEN LET q == FindFrom(s, <<"endmodule">>, SpanHead(s, p))
         IN Match(<<"module">> \o Slice(s, p + 1, q))
    ELSE SearchSpanFrom(s, p + 1)

SearchSpan(s) == SearchSpanFrom(s, 1)

\* re.search(r"module\s+(\w+)", code): group(1), <<>> for no match
RECURSIVE ModuleNameFrom(_, _)
ModuleNameFrom(s, p) ==
    IF p > Len(s) THEN <<>>
    ELSE IF ModuleAt(s, p)
            /\ SkipSpace(s, p + 1) > p + 1
            /\ SkipWord(s, SkipSpace(s, p + 1)) > SkipSpace(s, p + 1)
    THEN LET a == SkipSpace(s, p + 1)
         IN Slice(s, a, SkipWord(s, a) - 1)
    ELSE ModuleNameFrom(s, p + 1)

\* A slip: the placeholder left out.
extract_module_name_no_default(s) == ModuleNameFrom(s, 1)

\* extract_module_name (convert.py lines 5-10)
extract_module_name(s) ==
    IF ModuleNameFrom(s, 1) # <<>> THEN ModuleNameFrom(s, 1)
    ELSE <<"unknown_module">>

\* str.lower(): U+0130 lowers to two characters, "i" and the combining dot
\* above U+0307; every other lexeme here is its own lower case
LowerOf(c) == IF c = "I-dot" THEN <<"i", "dot-above">> ELSE <<c>>
RECURSIVE Lower(_)
Lower(s) == IF s = <<>> THEN <<>> ELSE LowerOf(Head(s)) \o Lower(Tail(s))

Min(a, b) == IF a < b THEN a ELSE b

\* extract_code_until_endmodule (convert.py lines 13-18): the position is
\* found in code.lower() and the cut made in code
extract_code_until_endmodule(s) ==
    LET endmodule_pos == FindFrom(Lower(s), <<"\n">> \o Fence, 1) - 1
    IN IF endmodule_pos # -1
       THEN Strip(Slice(s, 1, Min(endmodule_pos, Len(s))))
       ELSE Strip(s)

\* Python: s.split(sep) for a one-lexeme separator
RECURSIVE SplitFrom(_, _, _)
SplitFrom(s, sep, acc) ==
    IF s = <<>> THEN <<acc>>
    ELSE IF Head(s) = sep THEN <<acc>> \o SplitFrom(Tail(s), sep, <<>>)
    ELSE SplitFrom(Tail(s), sep, Append(acc, Head(s)))

Split(s, sep) == SplitFrom(s, sep, <<>>)

\* Python: s[:-n]
DropLast(s, n) == Slice(s, 1, Len(s) - n)

\* convert.py line 79:
\* f"{module_name}_code_{key.split('_')[1]}_{file.split('_')[-1][:-5]}.sv"
FileName(module_name, key, file) ==
    LET parts == Split(file, "_")
    IN module_name \o <<"_code", "_">> \o Split(key, "_")[2] \o <<"_">>
       \o DropLast(parts[Len(parts)], 5) \o <<".sv">>

\* The key and the JSON file the answer is read from.
AnswerKeyText == <<"answer", "_", "0">>
JsonFileName ==
    <<"i2c", "_", "easy", "_", "gpt-4", "_", "RAGFalse", ".", "j", "s", "o", "n">>

\* The pieces an answer is put together from.
OpenTagged == Fence \o <<"systemverilog", "\n">>
CloseFence == <<"\n">> \o Fence
ModFoo == <<"module", " ", "foo", "(">>
ModTop == <<"module", " ", "top", " ", "(">>
Block == OpenTagged \o ModFoo \o <<")", ";", "\n", "endmodule">> \o CloseFence
Pieces ==
    { OpenTagged, CloseFence, ModFoo, ModTop, <<"endmodule">>,
      <<"I-dot", "I-dot">>, <<"foo", " ">>, Block }

RECURSIVE Flatten(_)
Flatten(ps) == IF ps = <<>> THEN <<>> ELSE Head(ps) \o Flatten(Tail(ps))

\* Every answer of at most MaxPieces pieces.
Answers == { Flatten(ps) : ps \in UNION { [1..n -> Pieces] : n \in 0..MaxPieces } }

DispatchIdle ==
    /\ args = [model |-> <<>>, protocol |-> "", use_rag |-> FALSE, iter |-> FALSE]
    /\ section = Absent
    /\ fs = [output |-> NoFile, outdir |-> FALSE, lintfile |-> FALSE,
             refined |-> NoFile, refdir |-> FALSE, writes |-> <<>>]
    /\ pc = "idle"
    /\ prompts = <<>>
    /\ call = NoCall
    /\ calls = <<>>
    /\ sent = <<>>
    /\ output = [returned |-> FALSE, record |-> EmptyDict]
    /\ refined_output = [returned |-> FALSE, record |-> EmptyDict]
    /\ lint = [lines |-> 0, result |-> NoLint]
    /\ refined_prompt = <<>>
    /\ error = "none"

\* convert.py lines 32-38: an answer_* value is taken up; code = ''
InitExtract ==
    /\ value \in Answers
    /\ code = <<>>
    /\ matched = <<>>
    /\ extracted = <<>>
    /\ epc = "tagged"
    /\ written = <<>>
    /\ DispatchIdle
    /\ PipelineIdle("extract")

\* A slip: an earlier result kept, first match wins.
TakeFirst(m, old) == IF m.hit /\ old = <<>> THEN Strip(m.text) ELSE old

\* "if match: code = match.group(...).strip()"
Take(m, old) == IF m.hit THEN Strip(m.text) ELSE old

\* convert.py lines 40-42
TryTagged ==
    /\ epc = "tagged"
    /\ LET match == SearchTagged(value) IN
        /\ code' = Take(match, code)
        /\ matched' = Append(matched, match)
    /\ epc' = "generic"
    /\ UNCHANGED <<value, extracted, written, dvars, pvars>>

\* convert.py lines 45-47
TryGeneric ==
    /\ epc = "generic"
    /\ LET match == SearchGeneric(value) IN
        /\ code' = Take(match, code)
        /\ matched' = Append(matched, match)
    /\ epc' = "span"
    /\ UNCHANGED <<value, extracted, written, dvars, pvars>>

\* convert.py lines 48-50
TrySpan ==
    /\ epc = "span"
    /\ LET match == SearchSpan(value) IN
        /\ code' = Take(match, code)
        /\ matched' = Append(matched, match)
    /\ extracted' = code'
    /\ epc' = "cut"
    /\ UNCHANGED <<value, written, dvars, pvars>>

\* convert.py line 71
Cut ==
    /\ epc = "cut"
    /\ code' = extract_code_until_endmodule(code)
    /\ epc' = "write"
    /\ UNCHANGED <<value, matched, extracted, written, dvars, pvars>>

\* convert.py lines 73-89
WriteCode ==
    /\ epc = "write"
    /\ LET module_name == extract_module_name(code)
           filename == FileName(module_name, AnswerKeyText, JsonFileName)
       IN written' = Append(written, [module_name |-> module_name,
                                      filename |-> filename, content |-> code])
    /\ epc' = "done"
    /\ UNCHANGED <<value, code, matched, extracted, dvars, pvars>>

NextExtract ==
    \/ TryTagged
    \/ TryGeneric
    \/ TrySpan
    \/ Cut
    \/ WriteCode

SpecExtract == InitExtract /\ [][NextExtract]_vars

(***************************************************************************)
(* Properties of the extractor.                                            *)
(***************************************************************************)

StartsWith(s, prefix) == MatchAt(s, prefix, 1)

\* At p the answer holds a fenced block of the form
\* ```systemverilog, newline, module foo( ... endmodule, newline, ```
FooBlockAt(s, p) ==
    /\ MatchAt(s, OpenTagged \o ModFoo, p)
    /\ LET q == FindFrom(s, Fence, p + 5)
       IN /\ q >= p + 5 + Len(ModFoo) + 2
          /\ s[q - 1] = "\n"
          /\ s[q - 2] = "endmodule"

HasFooBlock(s) == \E p \in 1..Len(s) : FooBlockAt(s, p)

\* C7: for an answer holding a fenced block ```systemverilog / module
\* foo(...); ... endmodule / ```, with any prose around it, the file written
\* starts with "module foo" and its name carries the module name foo.
C7_TaggedBlockExtracted ==
    (epc = "done" /\ HasFooBlock(value)) =>
        /\ Len(written) = 1
        /\ StartsWith(written[1].content, <<"module", " ", "foo">>)
        /\ written[1].module_name = <<"foo">>
        /\ StartsWith(written[1].filename, <<"foo", "_code", "_">>)

\* The answer has no code fence and nowhere the letters "module".
Plain(s) ==
    /\ ~Contains(Fence, s)
    /\ \A p \in 1..Len(s) : ~ModuleAt(s, p)

\* C8: for an answer with no code fence and no "module" keyword a file is
\* still written, named with the placeholder unknown_module.
C8_PlaceholderName ==
    (epc = "done" /\ Plain(value)) =>
        /\ Len(written) = 1
        /\ written[1].module_name = <<"unknown_module">>
        /\ StartsWith(written[1].filename, <<"unknown_module", "_code", "_">>)

\* A plain answer that is not empty has been written.
C8_Witness ==
    /\ epc = "done"
    /\ Plain(value)
    /\ Len(value) >= 3
    /\ Len(written) = 1

\* The result of the last search, in the order tagged, generic, span, that
\* matched; empty when none did.
LastMatch(ms) ==
    IF ms[3].hit THEN Strip(ms[3].text)
    ELSE IF ms[2].hit THEN Strip(ms[2].text)
    ELSE IF ms[1].hit THEN Strip(ms[1].text)
    ELSE <<>>

InOrder(ms, s) ==
    /\ Len(ms) = 3
    /\ ms[1] = SearchTaggedFrom(s, 1)
    /\ ms[2] = SearchGenericFrom(s, 1)
    /\ ms[3] = SearchSpanFrom(s, 1)

\* C9 as amended: the three searches run in the order tagged block, generic
\* block, module ... endmodule span, and the result before the cut is that
\* of the last one that matched; it is empty when none matched.
C9_LastMatchWins ==
    epc \in {"cut", "write", "done"} =>
        /\ InOrder(matched, value)
        /\ extracted = LastMatch(matched)
        /\ (\A k \in 1..3 : ~matched[k].hit) => extracted = <<>>

\* C9: the same, and the result is empty only when no search matched.
C9_EmptyOnlyWhenNoneMatches ==
    epc \in {"cut", "write", "done"} =>
        /\ InOrder(matched, value)
        /\ extracted = LastMatch(matched)
        /\ extracted = <<>> <=> (\A k \in 1..3 : ~matched[k].hit)

\* All three searches matched, each with another result, and the span's won.
C9_Witness ==
    /\ epc = "done"
    /\ \A k \in 1..3 : matched[k].hit
    /\ Strip(matched[1].text) # Strip(matched[2].text)
    /\ Strip(matched[2].text) # Strip(matched[3].text)
    /\ extracted = Strip(matched[3].text)

StrayFence == <<"\n">> \o Fence

\* s up to the first newline followed by three backticks, all of s when
\* there is none
UpToStrayFence(s) ==
    IF FindFrom(s, StrayFence, 1) = 0 THEN s
    ELSE Slice(s, 1, FindFrom(s, StrayFence, 1) - 1)

\* C10: the content written is the extraction result cut at the first
\* newline followed by three backticks and stripped; no file written holds
\* a newline followed by three backticks, and a result without one is
\* written unchanged but for the stripping.
C10_CutAtStrayFence ==
    epc = "done" =>
        /\ Len(written) = 1
        /\ written[1].content = Strip(UpToStrayFence(extracted))
        /\ ~Contains(StrayFence, written[1].content)
        /\ ~Contains(StrayFence, extracted) => written[1].content = Strip(extracted)

(***************************************************************************)
(* process_json_files (convert.py lines 22-95) over a tree of files, and   *)
(* the script run a second time over the same tree.                        *)
(***************************************************************************)

\* At most this many files in the input tree.
MaxFiles == 2

\* os.sep
Sep == "/"

\* convert.py lines 101-102
input_folder == <<"outputs">>
output_folder == <<"..", Sep, "code">>

\* The directories os.walk(input_folder) yields, top down: outputs,
\* outputs/i2c and outputs/i2c/outputs.
Roots ==
    << input_folder,
       input_folder \o <<Sep, "i2c">>,
       input_folder \o <<Sep, "i2c", Sep, "outputs">> >>

\* Python: s.endswith(suffix)
EndsWith(s, suffix) ==
    /\ Len(s) >= Len(suffix)
    /\ Slice(s, Len(s) - Len(suffix) + 1, Len(s)) = suffix

\* Python: s.replace(old, new), every occurrence, left to right
RECURSIVE Replace(_, _, _)
Replace(s, old, new) ==
    IF s = <<>> THEN <<>>
    ELSE IF MatchAt(s, old, 1)
         THEN new \o Replace(Slice(s, Len(old) + 1, Len(s)), old, new)
         ELSE <<Head(s)>> \o Replace(Tail(s), old, new)

\* convert.py line 82: os.path.join(output_folder,
\* root.replace(folder_path, '').lstrip(os.sep), filename)
OutputPath(folder_path, root, filename) ==
    LET RECURSIVE LStripSep(_)
        LStripSep(t) == IF t # <<>> /\ Head(t) = Sep THEN LStripSep(Tail(t)) ELSE t
        PathJoin(x, y) ==
            IF y # <<>> /\ Head(y) = Sep THEN y
            ELSE IF x = <<>> \/ x[Len(x)] = Sep THEN x \o y
            ELSE x \o <<Sep>> \o y
    IN PathJoin(PathJoin(output_folder,
                         LStripSep(Replace(root, folder_path, <<>>))),
                filename)

\* convert.py lines 38-71: the three searches in their order, then the cut
ExtractCode(v) ==
    extract_code_until_endmodule(
        Take(SearchSpan(v), Take(SearchGeneric(v), Take(SearchTagged(v), <<>>))))

\* What a JSON file of the tree can hold: an object of keys and values (a
\* value a string, or an integer, on which re.search raises TypeError), text
\* that is no JSON, a list; or the file cannot be opened.  The answers are a
\* tagged block holding module foo, and a bare module top.
Contents ==
    LET Str(text) == [type |-> "str", text |-> text]
        NotStr == [type |-> "int", text |-> <<>>]
        SecondAnswerKeyText == <<"answer", "_", "1">>
        AnswerTop == ModTop \o <<")", ";", "\n", "endmodule">>
        Object(pairs) == [kind |-> "object", pairs |-> pairs]
    IN { Object(<< << <<"prompt", "_", "0">>, Str(<<"foo", " ">>) >>,
                   <<AnswerKeyText, Str(Block)>> >>),
         Object(<< <<AnswerKeyText, Str(AnswerTop)>>,
                   <<SecondAnswerKeyText, Str(Block)>> >>),
         Object(<< <<AnswerKeyText, Str(Block)>>,
                   <<SecondAnswerKeyText, NotStr>> >>),
         [kind |-> "malformed", pairs |-> <<>>],
         [kind |-> "list", pairs |-> <<>>],
         [kind |-> "unreadable", pairs |-> <<>>] }

\* The files in the order os.walk yields them: directory by directory, top
\* down, the files of one directory in the order the file system lists them.
\* The file names are those of main.py line 49 with --dataset easy and hard,
\* and of a file that is no JSON file.
Trees ==
    LET HardFileName == <<"i2c", "_", "hard", "_", "gpt-4", "_", "RAGFalse",
                          ".", "j", "s", "o", "n">>
        TreeFiles ==
            [dir : 1..Len(Roots), name : {JsonFileName, HardFileName},
             content : Contents]
            \cup [dir : 1..Len(Roots), name : {<<"notes", ".", "t", "x", "t">>},
                  content : {[kind |-> "malformed", pairs |-> <<>>]}]
    IN { t \in UNION { [1..n -> TreeFiles] : n \in 0..MaxFiles } :
            \A i, j \in DOMAIN t :
                i < j => /\ t[i].dir <= t[j].dir
                         /\ ~(t[i].dir = t[j].dir /\ t[i].name = t[j].name) }

InitWalk ==
    /\ tree \in Trees
    /\ run = 1
    /\ wi = 1
    /\ items = <<>>
    /\ wpc = "walk"
    /\ out = EmptyOut
    /\ first_out = EmptyOut
    /\ wlog = <<>>
    /\ werror = "none"
    /\ DispatchIdle
    /\ ExtractIdle
    /\ PipelineIdle("walk")

IsJson(f) == EndsWith(f.name, <<".", "j", "s", "o", "n">>)

\* convert.py line 25: not a .json file
SkipFile ==
    /\ wpc = "walk" /\ wi \in DOMAIN tree
    /\ ~IsJson(tree[wi])
    /\ wi' = wi + 1
    /\ UNCHANGED <<tree, run, items, wpc, out, first_out, wlog, werror,
                 dvars, evars, svars, mvars, gvars>>

\* convert.py line 27: open() raises, outside the try of line 28
OpenFails ==
    /\ wpc = "walk" /\ wi \in DOMAIN tree
    /\ IsJson(tree[wi])
    /\ tree[wi].content.kind = "unreadable"
    /\ werror' = "OSError"
    /\ wpc' = "crashed"
    /\ UNCHANGED <<tree, run, wi, items, out, first_out, wlog,
                 dvars, evars, svars, mvars, gvars>>

\* convert.py lines 29, 92-93: json.load raises JSONDecodeError
DecodeError ==
    /\ wpc = "walk" /\ wi \in DOMAIN tree
    /\ IsJson(tree[wi])
    /\ tree[wi].content.kind = "malformed"
    /\ wlog' = Append(wlog, [kind |-> "decode_error", file |-> wi, key |-> <<>>,
                             path |-> <<>>])
    /\ wi' = wi + 1
    /\ UNCHANGED <<tree, run, items, wpc, out, first_out, werror,
                 dvars, evars, svars, mvars, gvars>>

\* convert.py lines 32, 94-95: data.items() raises AttributeError
ItemsError ==
    /\ wpc = "walk" /\ wi \in DOMAIN tree
    /\ IsJson(tree[wi])
    /\ tree[wi].content.kind = "list"
    /\ wlog' = Append(wlog, [kind |-> "error", file |-> wi, key |-> <<>>,
                             path |-> <<>>])
    /\ wi' = wi + 1
    /\ UNCHANGED <<tree, run, items, wpc, out, first_out, werror,
                 dvars, evars, svars, mvars, gvars>>

\* convert.py lines 27-32: the file is loaded and the loop over its items starts
Load ==
    /\ wpc = "walk" /\ wi \in DOMAIN tree
    /\ IsJson(tree[wi])
    /\ tree[wi].content.kind = "object"
    /\ items' = tree[wi].content.pairs
    /\ wpc' = "items"
    /\ wlog' = Append(wlog, [kind |-> "loaded", file |-> wi, key |-> <<>>,
                             path |-> <<>>])
    /\ UNCHANGED <<tree, run, wi, out, first_out, werror,
                 dvars, evars, svars, mvars, gvars>>

\* convert.py line 34: a key that does not start with answer_
SkipKey ==
    /\ wpc = "items" /\ items # <<>>
    /\ ~MatchAt(Head(items)[1], <<"answer", "_">>, 1)
    /\ items' = Tail(items)
    /\ UNCHANGED <<tree, run, wi, wpc, out, first_out, wlog, werror,
                 dvars, evars, svars, mvars, gvars>>

\* convert.py lines 40, 94-95: re.search raises TypeError on a value that
\* is no string; the rest of the file is given up
AnswerFails ==
    /\ wpc = "items" /\ items # <<>>
    /\ MatchAt(Head(items)[1], <<"answer", "_">>, 1)
    /\ Head(items)[2].type # "str"
    /\ wlog' = Append(wlog, [kind |-> "error", file |-> wi, key |-> Head(items)[1],
                             path |-> <<>>])
    /\ items' = <<>>
    /\ wi' = wi + 1
    /\ wpc' = "walk"
    /\ UNCHANGED <<tree, run, out, first_out, werror,
                 dvars, evars, svars, mvars, gvars>>

\* A slip: the output file opened for appending.
AppendFile(o, path, content) ==
    [p \in DOMAIN o \cup {path} |->
        IF p # path THEN o[p]
        ELSE IF path \in DOMAIN o THEN o[path] \o content ELSE content]

\* convert.py lines 88-89: open(output_path, 'w') and write
WriteFile(o, path, content) ==
    [p \in DOMAIN o \cup {path} |-> IF p = path THEN content ELSE o[p]]

\* convert.py lines 34-91: one answer is extracted and saved
SaveAnswer ==
    /\ wpc = "items" /\ items # <<>>
    /\ MatchAt(Head(items)[1], <<"answer", "_">>, 1)
    /\ Head(items)[2].type = "str"
    /\ LET key == Head(items)[1]
           extracted_code == ExtractCode(Head(items)[2].text)
           module_name == extract_module_name(extracted_code)
           filename == FileName(module_name, key, tree[wi].name)
           output_path == OutputPath(input_folder, Roots[tree[wi].dir], filename)
       IN /\ out' = WriteFile(out, output_path, extracted_code)
          /\ wlog' = Append(wlog, [kind |-> "saved", file |-> wi, key |-> key,
                                   path |-> output_path])
    /\ items' = Tail(items)
    /\ UNCHANGED <<tree, run, wi, wpc, first_out, werror,
                 dvars, evars, svars, mvars, gvars>>

\* convert.py line 32: the loop over the items of one file ends
EndFile ==
    /\ wpc = "items"
    /\ items = <<>>
    /\ wi' = wi + 1
    /\ wpc' = "walk"
    /\ UNCHANGED <<tree, run, items, out, first_out, wlog, werror,
                 dvars, evars, svars, mvars, gvars>>

RunOver == (wpc = "walk" /\ wi > Len(tree)) \/ wpc = "crashed"

\* convert.py line 105, the script started again over the same tree
SecondRun ==
    /\ RunOver
    /\ run = 1
    /\ first_out' = out
    /\ run' = 2
    /\ wi' = 1
    /\ wpc' = "walk"
    /\ wlog' = <<>>
    /\ werror' = "none"
    /\ UNCHANGED <<tree, items, out,
                 dvars, evars, svars, mvars, gvars>>

\* the second run is over
Finish ==
    /\ RunOver
    /\ run = 2
    /\ wpc' = "done"
    /\ UNCHANGED <<tree, run, wi, items, out, first_out, wlog, werror,
                 dvars, evars, svars, mvars, gvars>>

NextWalk ==
    \/ SkipFile
    \/ OpenFails
    \/ DecodeError
    \/ ItemsError
    \/ Load
    \/ SkipKey
    \/ AnswerFails
    \/ SaveAnswer
    \/ EndFile
    \/ SecondRun
    \/ Finish

SpecWalk == InitWalk /\ [][NextWalk]_vars

(***************************************************************************)
(* Properties of process_json_files over a tree.                           *)
(***************************************************************************)

Saved == {k \in DOMAIN wlog : wlog[k].kind = "saved"}

\* C11: extraction is idempotent: the script run twice over the same
\* unchanged input tree leaves the same set of output files with the same
\* contents as the script run once; the second run adds no file and changes
\* no content.
C11_Idempotent == wpc = "done" => out = first_out

\* Both runs wrote two files or more, one of them not empty.
C11_Witness ==
    /\ wpc = "done"
    /\ Cardinality(Saved) >= 2
    /\ Cardinality(DOMAIN first_out) >= 2
    /\ \E p \in DOMAIN out : out[p] # <<>>

\* os.path.dirname
RECURSIVE DirName(_)
DirName(path) ==
    IF path = <<>> THEN <<>>
    ELSE IF path[Len(path)] = Sep THEN Slice(path, 1, Len(path) - 1)
    ELSE DirName(Slice(path, 1, Len(path) - 1))

\* The directory D of root relative to the input folder, and the same
\* relative directory of the output folder.
RelativeDir(root) == Slice(root, Len(input_folder) + 2, Len(root))
MirrorDir(root) ==
    IF RelativeDir(root) = <<>> THEN output_folder
    ELSE output_folder \o <<Sep>> \o RelativeDir(root)

\* C12: for every JSON file at relative directory D of the input folder,
\* also when a directory name in D repeats the input folder's name, each
\* extracted file is written under the same relative directory D of the
\* output folder.
C12_OutputMirrorsInput ==
    \A k \in Saved :
        DirName(wlog[k].path) = MirrorDir(Roots[tree[wlog[k].file].dir])

\* C13: malformed JSON or any exception raised while one JSON file is
\* processed is caught and logged and never ends the walk: every other JSON
\* file of the tree is still taken up, and the files already written from
\* earlier answers of the failing file stay in place.
C13_FileErrorsCaught ==
    /\ werror = "none"
    /\ wpc # "crashed"
    /\ (wpc = "done" =>
            \A j \in DOMAIN tree :
                IsJson(tree[j]) => \E k \in DOMAIN wlog : wlog[k].file = j)
    /\ \A k \in Saved : wlog[k].path \in DOMAIN out

\* The answer_* keys of a file.
AnswerKeys(f) ==
    {f.content.pairs[n][1] : n \in {m \in DOMAIN f.content.pairs :
        MatchAt(f.content.pairs[m][1], <<"answer", "_">>, 1)}}

\* the file was processed without an error: loaded, and no error logged
Processed(j) ==
    /\ \E k \in DOMAIN wlog : wlog[k].kind = "loaded" /\ wlog[k].file = j
    /\ ~\E k \in DOMAIN wlog : wlog[k].kind = "error" /\ wlog[k].file = j

\* C15: extracted files are one per answer: every answer_* entry of every
\* successfully processed JSON file yields its own output file, named
\* <module>_code_<index>_<suffix>.sv, and two distinct (JSON file, answer key)
\* pairs never map to the same output path, so no extracted file is
\* overwritten by another answer within one run.
C15_OneFilePerAnswer ==
    /\ \A k \in Saved :
           EndsWith(wlog[k].path,
                    <<"_code", "_", wlog[k].key[3], "_", "RAGFalse", ".sv">>)
    /\ (wpc = "done" =>
            \A j \in DOMAIN tree :
                Processed(j) =>
                    \A key \in AnswerKeys(tree[j]) :
                        \E k \in Saved : wlog[k].file = j /\ wlog[k].key = key)
    /\ \A k1, k2 \in Saved : k1 # k2 => wlog[k1].path # wlog[k2].path

(***************************************************************************)
(* run_synth_on_files (synth/synth.py lines 54-90) over the tree of        *)
(* extracted files.  The build command and the report script are external: *)
(* of them the model keeps the exit status and what they do to             *)
(* reports/metrics.txt.                                                    *)
(***************************************************************************)

\* At most this many files in the extracted-code tree.
MaxCodeFiles == 2

\* os.path.relpath(root, folder_path) of the directories os.walk yields
CodeDirs == << <<".">>, <<"i2c">> >>

\* The files in os.walk order; a .sv file carries the name the extractor
\* gave it (convert.py line 79) and, beside it, the module name it was
\* made from.  A file that is no .sv file lies in the tree too.  The module
\* names are ones the extractor infers (\w+): a plain one, the placeholder,
\* and one that holds "_code" itself (my_code_gen).
CodeTrees ==
    LET InferredNames ==
            { <<"foo">>, <<"unknown_module">>, <<"my", "_code", "_gen">> }
        SvFiles == { [dir |-> dn, module |-> m,
                      name |-> FileName(m, AnswerKeyText, JsonFileName)] :
                     dn \in DOMAIN CodeDirs, m \in InferredNames }
        Others == { [dir |-> dn, module |-> <<>>,
                     name |-> <<"notes", ".", "t", "x", "t">>] :
                    dn \in DOMAIN CodeDirs }
    IN { t \in UNION { [1..n -> SvFiles \cup Others] : n \in 0..MaxCodeFiles } :
            \A i, j \in DOMAIN t :
                i < j => /\ t[i].dir <= t[j].dir
                         /\ ~(t[i].dir = t[j].dir /\ t[i].name = t[j].name) }

InitSynth ==
    /\ stree \in CodeTrees
    /\ si = 1
    /\ spc = "walk"
    /\ cmds = <<>>
    /\ metric_file = [exists |-> FALSE, of |-> 0, complete |-> FALSE]
    /\ reports = EmptyOut
    /\ DispatchIdle
    /\ ExtractIdle
    /\ PipelineIdle("synth")

\* synth.py line 58: file_name.split('_code')[0]
DesignTop(file_name) == Split(file_name, "_code")[1]

\* synth.py lines 69-70, 87-88: the path the metrics are copied to;
\* file_name.split('.')[0] is the name up to its first dot
ReportPath(dir, file_name) ==
    LET RECURSIVE Stem(_)
        Stem(t) == IF t = <<>> \/ Head(t) \in {".", ".sv"} THEN <<>>
                   ELSE <<Head(t)>> \o Stem(Tail(t))
    IN <<"..", Sep, "reports", Sep>> \o dir \o <<Sep>>
       \o Stem(file_name) \o <<"_metrics.txt">>

\* What a run of the report script does to reports/metrics.txt: it writes
\* the metrics of the file; a failed run writes nothing or stops half way.
\* The build command leaves reports/metrics.txt as it is.
ToolEffects(status) ==
    IF status = "ok" THEN {"written"} ELSE {"untouched", "partial"}

\* A slip: the two commands in the other order.
CommandsSwapped == [build |-> "run.sh", report |-> "make synth"]

\* synth.py lines 59 and 72: the two commands run for a file
Commands == [build |-> "make synth", report |-> "run.sh"]

\* One external command: its exit status, and reports/metrics.txt after it.
RunCommand(cmd, top, status, effect) ==
    /\ cmds' = Append(cmds, [file |-> si, cmd |-> cmd, top |-> top,
                             status |-> status, effect |-> effect])
    /\ metric_file' =
           IF cmd # "run.sh" \/ effect = "untouched" THEN metric_file
           ELSE [exists |-> TRUE, of |-> si, complete |-> effect = "written"]

\* synth.py line 57: not a .sv file
SkipOther ==
    /\ spc = "walk" /\ si \in DOMAIN stree
    /\ ~EndsWith(stree[si].name, <<".sv">>)
    /\ si' = si + 1
    /\ UNCHANGED <<stree, spc, cmds, metric_file, reports,
                   dvars, evars, wvars, mvars, gvars>>

\* synth.py lines 57-66: the build command; a failing exit status is
\* caught and printed
RunBuild ==
    /\ spc = "walk" /\ si \in DOMAIN stree
    /\ EndsWith(stree[si].name, <<".sv">>)
    /\ \E status \in {"ok", "fail"} :
        RunCommand(Commands.build, DesignTop(stree[si].name), status, "untouched")
    /\ spc' = "report"
    /\ UNCHANGED <<stree, si, reports, dvars, evars, wvars, mvars, gvars>>

\* synth.py lines 68-74: the report script; a failing exit status is
\* caught and printed
RunReport ==
    /\ spc = "report"
    /\ \E status \in {"ok", "fail"} :
        \E effect \in ToolEffects(status) :
            RunCommand(Commands.report, <<>>, status, effect)
    /\ spc' = "copy"
    /\ UNCHANGED <<stree, si, reports, dvars, evars, wvars, mvars, gvars>>

\* synth.py lines 75-90: reports/metrics.txt, when there is one, is copied
\* into the mirrored report directory under the name of the file
CopyMetrics ==
    /\ spc = "copy"
    /\ reports' =
           IF metric_file.exists
           THEN WriteFile(reports,
                          ReportPath(CodeDirs[stree[si].dir], stree[si].name),
                          [of |-> metric_file.of, complete |-> metric_file.complete])
           ELSE reports
    /\ si' = si + 1
    /\ spc' = "walk"
    /\ UNCHANGED <<stree, cmds, metric_file, dvars, evars, wvars, mvars, gvars>>

\* synth.py line 55: the walk is over
EndSynth ==
    /\ spc = "walk" /\ si > Len(stree)
    /\ spc' = "done"
    /\ UNCHANGED <<stree, si, cmds, metric_file, reports,
                   dvars, evars, wvars, mvars, gvars>>

NextSynth ==
    \/ SkipOther
    \/ RunBuild
    \/ RunReport
    \/ CopyMetrics
    \/ EndSynth

SpecSynth == InitSynth /\ [][NextSynth]_vars

(***************************************************************************)
(* Properties of the synthesis runner.                                     *)
(***************************************************************************)

\* the .sv files the runner is through with
Synthesised ==
    {i \in DOMAIN stree : EndsWith(stree[i].name, <<".sv">>)
                          /\ (i < si \/ spc = "done")}

MetricsOf(i) == ReportPath(CodeDirs[stree[i].dir], stree[i].name)

\* C14: after the runner has processed any sequence of source files, a file
\* whose build and report run produced no metrics has no <file>_metrics.txt
\* in the mirrored report tree, or an incomplete one: every
\* <file>_metrics.txt holds the metrics the tool run for that same file
\* produced, never those left behind by the run of an earlier file.
C14_MetricsAreOwn ==
    \A i \in Synthesised :
        /\ MetricsOf(i) \in DOMAIN reports => reports[MetricsOf(i)].of = i
        /\ (\A k \in DOMAIN cmds : cmds[k].file = i => cmds[k].effect = "untouched")
               => \/ MetricsOf(i) \notin DOMAIN reports
                  \/ ~reports[MetricsOf(i)].complete

\* C19: for every .sv file of the tree the runner runs the build command
\* and then the report script, each exactly once and in that order, before
\* it moves to the next file; a failing exit status of either is caught and
\* stops neither the remaining steps for the file nor any later file.
C19_BuildThenReport ==
    /\ \A k \in DOMAIN cmds :
           IF k % 2 = 1
           THEN /\ cmds[k].cmd = "make synth"
                /\ k > 1 => cmds[k - 1].file < cmds[k].file
           ELSE /\ cmds[k].cmd = "run.sh"
                /\ cmds[k - 1].file = cmds[k].file
    /\ \A i \in Synthesised :
           Cardinality({k \in DOMAIN cmds : cmds[k].file = i}) = 2
    /\ \A k \in DOMAIN cmds : EndsWith(stree[cmds[k].file].name, <<".sv">>)

\* Two .sv files are through, the first with both commands failing.
C19_Witness ==
    /\ spc = "done"
    /\ Cardinality(Synthesised) >= 2
    /\ Len(cmds) = 4
    /\ cmds[1].status = "fail" /\ cmds[2].status = "fail"

\* C20: round trip between extractor and runner: for every module name m
\* the extractor can infer, also one that holds "_code" itself, the
\* design-top name the runner derives from the extractor's file name
\* <m>_code_<index>_<suffix>.sv is m.
C20_DesignTopIsModule ==
    \A k \in DOMAIN cmds :
        cmds[k].cmd = "make synth" => cmds[k].top = stree[cmds[k].file].module

(***************************************************************************)
(* parse_metrics (rpt.py lines 5-56, total.py lines 5-52) on one metrics   *)
(* file.  A line is a sequence of lexemes: the phrases the code looks for, *)
(* digits, signs and blanks; "um2" stands for the unit, square micrometre, *)
(* and the verdicts "pass", "warn" and "fail" for the check mark, the      *)
(* warning sign and the cross the code stores.                             *)
(***************************************************************************)

\* At most this many lines in a metrics file taken from MetricLines.
MaxMetricLines == 2

\* A slip: the pattern without its exponent, r'([0-9]+\.[0-9]+)'.
PowerTokenMantissa(line) ==
    LET RECURSIVE SkipDigits(_)
        SkipDigits(q) ==
            IF q <= Len(line) /\ line[q] \in {"1", "2", "3", "4", "5", "7"}
            THEN SkipDigits(q + 1) ELSE q
        EndAt(q) ==
            LET dot == SkipDigits(q)
                end == SkipDigits(dot + 1)
            IN IF dot > q /\ dot <= Len(line) /\ line[dot] = "." /\ end > dot + 1
               THEN end ELSE 0
        starts == {q \in 1..Len(line) : EndAt(q) # 0}
    IN IF starts = {} THEN <<>>
       ELSE LET q == CHOOSE x \in starts : \A y \in starts : x <= y
            IN Slice(line, q, EndAt(q) - 1)

\* rpt.py line 47: re.search(r'([0-9]+\.[0-9]+e[-+][0-9]+)', line), the
\* leftmost match; <<>> when there is none
PowerToken(line) ==
    LET RECURSIVE SkipDigits(_)
        SkipDigits(q) ==
            IF q <= Len(line) /\ line[q] \in {"1", "2", "3", "4", "5", "7"}
            THEN SkipDigits(q + 1) ELSE q
        Is(q, cs) == q <= Len(line) /\ line[q] \in cs
        EndAt(q) ==
            LET dot == SkipDigits(q)
                e == SkipDigits(dot + 1)
                end == SkipDigits(e + 2)
            IN IF /\ dot > q /\ Is(dot, {"."})
                  /\ e > dot + 1 /\ Is(e, {"e"}) /\ Is(e + 1, {"-", "+"})
                  /\ end > e + 2
               THEN end ELSE 0
        starts == {q \in 1..Len(line) : EndAt(q) # 0}
    IN IF starts = {} THEN <<>>
       ELSE LET q == CHOOSE x \in starts : \A y \in starts : x <= y
            IN Slice(line, q, EndAt(q) - 1)

\* rpt.py line 52: re.search(r'([0-9]+)\s*<unit>', line), group 1 of the
\* leftmost match; <<>> when there is none
AreaToken(line) ==
    LET RECURSIVE SkipDigits(_)
        SkipDigits(q) ==
            IF q <= Len(line) /\ line[q] \in {"1", "2", "3", "4", "5", "7"}
            THEN SkipDigits(q + 1) ELSE q
        EndAt(q) ==
            LET end == SkipDigits(q)
                unit == SkipSpace(line, end)
            IN IF end > q /\ unit <= Len(line) /\ line[unit] = "um2"
               THEN end ELSE 0
        starts == {q \in 1..Len(line) : EndAt(q) # 0}
    IN IF starts = {} THEN <<>>
       ELSE LET q == CHOOSE x \in starts : \A y \in starts : x <= y
            IN Slice(line, q, EndAt(q) - 1)

\* rpt.py lines 6-21, total.py lines 6-15: the record before the file is
\* read; total.py keeps no RAG tag
InitialMetrics(script, basename, protocol, llm) ==
    LET tag == Replace(basename, <<"_metrics.txt">>, <<>>)
        RAG == IF Contains(<<"RAG", "True">>, tag) THEN "True"
               ELSE IF Contains(<<"RAG", "False">>, tag) THEN "False"
               ELSE "Unknown"
    IN IF script = "rpt"
       THEN [File |-> tag, Protocol |-> protocol, LLM |-> llm, RAG |-> RAG,
             Lint |-> "N/A", Synthesis |-> "N/A", Timing |-> "N/A",
             Power |-> <<"N/A">>, Area |-> <<"N/A">>]
       ELSE [File |-> tag, Protocol |-> protocol, LLM |-> llm,
             Lint |-> "N/A", Synthesis |-> "N/A", Timing |-> "N/A",
             Power |-> <<"N/A">>, Area |-> <<"N/A">>]

\* A slip: the third test without its "ERROR" half.
LintVerdictAnyVerilator(script, old, line) ==
    IF Contains(<<"No lint errors">>, line) THEN "pass"
    ELSE IF Contains(<<"Lint warnings found">>, line) THEN "warn"
    ELSE IF Contains(<<"Verilator">>, line) THEN "fail"
    ELSE old

\* rpt.py lines 29-34, an if/elif chain; total.py lines 25-30, three ifs
LintVerdict(script, old, line) ==
    LET ok == Contains(<<"No lint errors">>, line)
        warnings == Contains(<<"Lint warnings found">>, line)
        errors == Contains(<<"Verilator">>, line) /\ Contains(<<"ERROR">>, line)
    IN IF script = "rpt"
       THEN IF ok THEN "pass" ELSE IF warnings THEN "warn"
            ELSE IF errors THEN "fail" ELSE old
       ELSE IF errors THEN "fail" ELSE IF warnings THEN "warn"
            ELSE IF ok THEN "pass" ELSE old

\* rpt.py lines 28-54, total.py lines 23-50: one line of the file
ParseLine(script, m, line) ==
    LET Has(x) == Contains(<<x>>, line)
        synthesis ==
            IF script = "rpt"
            THEN IF Has("No synthesis errors") THEN "pass"
                 ELSE IF Has("Synthesis errors found") THEN "fail"
                 ELSE m.Synthesis
            ELSE IF Has("Synthesis errors found") THEN "fail"
                 ELSE IF Has("No synthesis errors") THEN "pass"
                 ELSE m.Synthesis
        timing ==
            IF Has("Timing Met: YES") THEN "pass"
            ELSE IF Has("Timing Met: NO") \/ Has("Timing Not Met") THEN "fail"
            ELSE m.Timing
        power ==
            IF Has("Total Power") /\ PowerToken(line) # <<>>
            THEN PowerToken(line) ELSE m.Power
        area ==
            IF Has("Chip Area") /\ AreaToken(line) # <<>>
            THEN AreaToken(line) ELSE m.Area
    IN [m EXCEPT !.Lint = LintVerdict(script, m.Lint, line),
                 !.Synthesis = synthesis, !.Timing = timing,
                 !.Power = power, !.Area = area]

\* Power and area tokens: 1.2e-3, 12.3e+21 and, scientific notation too,
\* 1e-3, 1.2E-3 and 1.2e3; the integers 45 and 7.
PowerTokens ==
    { <<"1", ".", "2", "e", "-", "3">>, <<"1", "2", ".", "3", "e", "+", "2", "1">>,
      <<"1", "e", "-", "3">>, <<"1", ".", "2", "E", "-", "3">>,
      <<"1", ".", "2", "e", "3">> }
AreaTokens == { <<"4", "5">>, <<"7">> }

\* The four lines of a report with its power p and its area a.
ReportLines(p, a) ==
    { <<"No lint errors">>, <<"Timing Met: YES">>,
      <<"Total Power", " ">> \o p, <<"Chip Area", " ">> \o a \o <<" ", "um2">> }

\* The metrics files: none, one of at most MaxMetricLines of the lines
\* below, or the four lines of a report in any order.
MetricFiles ==
    LET MetricLines ==
            UNION { ReportLines(p, a) : p \in PowerTokens, a \in AreaTokens }
            \cup { <<"Lint warnings found">>, <<"Verilator", " ", "ERROR">>,
                   <<"Verilator", " ", "version">>,
                   <<"No lint errors", " ", "Lint warnings found">>,
                   <<"No synthesis errors", " ", "Synthesis errors found">>,
                   <<"No synthesis errors">>, <<"Synthesis errors found">>,
                   <<"Timing Met: NO">>, <<" ", "Timing Not Met", "\n">>,
                   <<"Total Power", " ", "unknown">>, <<"Chip Area", " ", "7">>,
                   <<"junk">>, <<>> }
    IN { [exists |-> FALSE, lines |-> <<>>] }
       \cup { [exists |-> TRUE, lines |-> ls] :
              ls \in UNION { [1..n -> MetricLines] : n \in 0..MaxMetricLines } }
       \cup { [exists |-> TRUE, lines |-> ls] :
              ls \in UNION { { f \in [1..4 -> ReportLines(p, a)] :
                                 \A i, j \in 1..4 : i # j => f[i] # f[j] } :
                             p \in PowerTokens, a \in AreaTokens } }

\* The base name of the file is as synth.py line 87 makes it, with RAGTrue,
\* with RAGFalse or with neither; or it holds "_metrics.txt" twice.
InitMetrics ==
    /\ variant \in {"rpt", "total"}
    /\ mname \in
           { <<"foo", "_code", "_", "0", "_", "RAG", "True", "_metrics.txt">>,
             <<"foo", "_code", "_", "0", "_", "RAG", "False", "_metrics.txt">>,
             <<"foo", "_metrics.txt">>,
             <<"RAG", "_metrics.txt", "True", "_metrics.txt">> }
    /\ mfile \in MetricFiles
    /\ mi = 0
    /\ metrics = EmptyOut
    /\ mpc = "start"
    /\ DispatchIdle
    /\ ExtractIdle
    /\ PipelineIdle("metrics")

\* rpt.py lines 6-24: no file at metrics_path, the sentinels are returned
MissingFile ==
    /\ mpc = "start"
    /\ ~mfile.exists
    /\ metrics' = InitialMetrics(variant, mname, "i2c", "gpt-4")
    /\ mpc' = "done"
    /\ UNCHANGED <<variant, mname, mfile, mi, dvars, evars, wvars, svars, gvars>>

\* rpt.py lines 6-26: the file is opened
OpenMetrics ==
    /\ mpc = "start"
    /\ mfile.exists
    /\ metrics' = InitialMetrics(variant, mname, "i2c", "gpt-4")
    /\ mi' = 1
    /\ mpc' = "lines"
    /\ UNCHANGED <<variant, mname, mfile, dvars, evars, wvars, svars, gvars>>

\* rpt.py lines 27-54: the next line, stripped
ReadLine ==
    /\ mpc = "lines"
    /\ mi \in DOMAIN mfile.lines
    /\ metrics' = ParseLine(variant, metrics, Strip(mfile.lines[mi]))
    /\ mi' = mi + 1
    /\ UNCHANGED <<variant, mname, mfile, mpc, dvars, evars, wvars, svars, gvars>>

\* rpt.py line 56
ReturnMetrics ==
    /\ mpc = "lines"
    /\ mi > Len(mfile.lines)
    /\ mpc' = "done"
    /\ UNCHANGED <<variant, mname, mfile, mi, metrics,
                   dvars, evars, wvars, svars, gvars>>

NextMetrics ==
    \/ MissingFile
    \/ OpenMetrics
    \/ ReadLine
    \/ ReturnMetrics

SpecMetrics == InitMetrics /\ [][NextMetrics]_vars

(***************************************************************************)
(* Properties of parse_metrics.                                            *)
(***************************************************************************)

\* the file holds the four lines of a report with power p and area a, in
\* some order
IsReport(p, a) ==
    /\ mfile.exists
    /\ Len(mfile.lines) = 4
    /\ {mfile.lines[i] : i \in 1..4} = ReportLines(p, a)

Parsed(p, a) ==
    /\ metrics.Lint = "pass"
    /\ metrics.Timing = "pass"
    /\ metrics.Power = p
    /\ metrics.Area = a
    /\ metrics.Synthesis = "N/A"

\* C16: parse_metrics, of rpt.py and of total.py, on a report whose lines
\* are 'No lint errors', 'Timing Met: YES', 'Total Power <p>' and
\* 'Chip Area <a> <unit>', p a scientific-notation number and a an integer,
\* in any line order, returns Lint and Timing as passed, Power equal to the
\* token p, Area equal to the token a, and leaves Synthesis at its sentinel.
C16_ReportParsed ==
    mpc = "done" =>
        \A p \in PowerTokens, a \in AreaTokens : IsReport(p, a) => Parsed(p, a)

\* Power tokens of the shape <digits>.<digits>e<sign><digits>.
FixedPatternPower ==
    { <<"1", ".", "2", "e", "-", "3">>, <<"1", "2", ".", "3", "e", "+", "2", "1">> }

\* C16, amended: the same, for p of the shape <digits>.<digits>e<sign><digits>
\* (a decimal point, a lower-case e and a signed exponent).
C16_FixedPatternParsed ==
    mpc = "done" =>
        \A p \in FixedPatternPower, a \in AreaTokens :
            IsReport(p, a) => Parsed(p, a)

\* total.py has parsed a report that starts with its area line.
C16_Witness ==
    /\ mpc = "done"
    /\ variant = "total"
    /\ \E p \in FixedPatternPower, a \in AreaTokens :
        /\ IsReport(p, a)
        /\ mfile.lines[1] = <<"Chip Area", " ">> \o a \o <<" ", "um2">>
        /\ metrics.Power = p

\* Some line of the file holds one of the phrases.
AnyLineHas(phrases) ==
    \E i \in DOMAIN mfile.lines : \E x \in phrases : Contains(<<x>>, mfile.lines[i])

\* Some line of the file holds both phrases.
AnyLineHasBoth(x, y) ==
    \E i \in DOMAIN mfile.lines :
        Contains(<<x>>, mfile.lines[i]) /\ Contains(<<y>>, mfile.lines[i])

\* C17, without its RAG clause: every one of Lint, Synthesis, Timing, Power
\* and Area for which the file has no recognised line, and all of them when
\* there is no file, keeps the sentinel, and the File, Protocol and LLM tags
\* are set.
SentinelsKept ==
    /\ (~AnyLineHas({"No lint errors", "Lint warnings found"})
        /\ ~AnyLineHasBoth("Verilator", "ERROR")) => metrics.Lint = "N/A"
    /\ ~AnyLineHas({"No synthesis errors", "Synthesis errors found"})
           => metrics.Synthesis = "N/A"
    /\ ~AnyLineHas({"Timing Met: YES", "Timing Met: NO", "Timing Not Met"})
           => metrics.Timing = "N/A"
    /\ ~AnyLineHas({"Total Power"}) => metrics.Power = <<"N/A">>
    /\ ~AnyLineHas({"Chip Area"}) => metrics.Area = <<"N/A">>
    /\ metrics.Protocol = "i2c" /\ metrics.LLM = "gpt-4"
    /\ metrics.File # <<>>

HasRagMark(name) ==
    Contains(<<"RAG", "True">>, name) \/ Contains(<<"RAG", "False">>, name)

C21_VariantsAgree ==
    mpc = "done" =>
        LET other == IF variant = "rpt" THEN "total" ELSE "rpt"
            start == InitialMetrics(other, mname, "i2c", "gpt-4")
            RECURSIVE ReadFrom(_, _)
            ReadFrom(m, i) ==
                IF i > Len(mfile.lines) THEN m
                ELSE ReadFrom(ParseLine(other, m, Strip(mfile.lines[i])), i + 1)
            theirs == IF mfile.exists THEN ReadFrom(start, 1) ELSE start
        IN /\ metrics.Lint = theirs.Lint
           /\ metrics.Synthesis = theirs.Synthesis
           /\ metrics.Timing = theirs.Timing
           /\ metrics.Power = theirs.Power
           /\ metrics.Area = theirs.Area

(***************************************************************************)
(* generate_grouped_summary (rpt.py lines 64-97) on the metrics records    *)
(* collected from the report tree.  Of a record the model keeps the group  *)
(* key and the Lint verdict; the other rates are computed the same way.    *)
(* A rate is kept in tenths of a per cent: 500 stands for 50.0.            *)
(***************************************************************************)

\* At most this many metrics records.
MaxRecords == 3

InitSummary ==
    /\ all_metrics \in
           UNION { [1..n -> [LLM : {"gpt-4"}, RAG : {"True", "False"},
                             Protocol : {"i2c"},
                             Lint : {"pass", "warn", "fail", "N/A"}]] :
                   n \in 0..MaxRecords }
    /\ df = <<>>
    /\ grouped = EmptyOut
    /\ gpc = "frame"
    /\ DispatchIdle
    /\ ExtractIdle
    /\ PipelineIdle("summary")

\* A slip: a warning not counted as passing.
LintPassStrict(verdict) == verdict = "pass"

\* rpt.py line 78
LintPass(verdict) == verdict = "pass" \/ verdict = "warn"

\* rpt.py lines 76-82: the frame and its pass columns; with no record at
\* all the frame has no "Lint" column and df["Lint"] raises KeyError
AddPassColumns ==
    /\ gpc = "frame"
    /\ IF all_metrics = <<>>
       THEN df' = df /\ gpc' = "KeyError"
       ELSE /\ df' = [i \in DOMAIN all_metrics |->
                        [key |-> <<all_metrics[i].LLM, all_metrics[i].RAG,
                                   all_metrics[i].Protocol>>,
                         LintPass |-> LintPass(all_metrics[i].Lint)]]
            /\ gpc' = "group"
    /\ UNCHANGED <<all_metrics, grouped, dvars, evars, wvars, svars, mvars>>

\* rpt.py lines 84-91: count of File and mean of Lint Pass by group; the
\* mean is kept as sum and count
GroupBy ==
    /\ gpc = "group"
    /\ grouped' =
           [g \in {df[i].key : i \in DOMAIN df} |->
               LET rows == {i \in DOMAIN df : df[i].key = g}
               IN [Total_Designs |-> Cardinality(rows),
                   Lint_Pass_Rate |->
                       [sum |-> Cardinality({i \in rows : df[i].LintPass}),
                        count |-> Cardinality(rows)]]]
    /\ gpc' = "round"
    /\ UNCHANGED <<all_metrics, df, dvars, evars, wvars, svars, mvars>>

\* rpt.py lines 93-97: (mean * 100).round(1), a tie going to the even digit
RoundRates ==
    /\ gpc = "round"
    /\ grouped' =
           [g \in DOMAIN grouped |->
               LET mean == grouped[g].Lint_Pass_Rate
                   q == (1000 * mean.sum) \div mean.count
                   r == (1000 * mean.sum) % mean.count
               IN [grouped[g] EXCEPT !.Lint_Pass_Rate =
                      IF 2 * r > mean.count \/ (2 * r = mean.count /\ q % 2 = 1)
                      THEN q + 1 ELSE q]]
    /\ gpc' = "done"
    /\ UNCHANGED <<all_metrics, df, dvars, evars, wvars, svars, mvars>>

NextSummary ==
    \/ AddPassColumns
    \/ GroupBy
    \/ RoundRates

SpecSummary == InitSummary /\ [][NextSummary]_vars

(***************************************************************************)
(* Properties of the summary.                                              *)
(***************************************************************************)

\* the records of a group, and those of them whose Lint verdict is pass or
\* warn
GroupOf(g) ==
    {i \in DOMAIN all_metrics :
        <<all_metrics[i].LLM, all_metrics[i].RAG, all_metrics[i].Protocol>> = g}
Passing(g) == {i \in GroupOf(g) : all_metrics[i].Lint \in {"pass", "warn"}}

\* C18: for every (LLM, RAG, Protocol) group of n records the lint pass
\* rate is 100 * k / n rounded to one decimal, k the number of its records
\* whose Lint verdict is pass or warn; a group of two records, one passing
\* and one failing lint, has a rate of exactly 50.0; Total_Designs is n.
C18_LintPassRate ==
    gpc = "done" =>
        /\ DOMAIN grouped = {g \in {"gpt-4"} \X {"True", "False"} \X {"i2c"} :
                                GroupOf(g) # {}}
        /\ \A g \in DOMAIN grouped :
            LET n == Cardinality(GroupOf(g))
                k == Cardinality(Passing(g))
                rate == grouped[g].Lint_Pass_Rate
            IN /\ grouped[g].Total_Designs = n
               /\ 2 * (rate * n - 1000 * k) <= n
               /\ 2 * (1000 * k - rate * n) <= n
               /\ (n = 2 /\ k = 1) => rate = 500

\* A group of two, one record passing and one failing lint; beside it a
\* group whose one record has a warning.
C18_Witness ==
    /\ gpc = "done"
    /\ \E g, h \in DOMAIN grouped :
        /\ g # h
        /\ Cardinality(GroupOf(g)) = 2
        /\ {all_metrics[i].Lint : i \in GroupOf(g)} = {"pass", "fail"}
        /\ grouped[g].Lint_Pass_Rate = 500
        /\ {all_metrics[i].Lint : i \in GroupOf(h)} = {"warn"}
        /\ grouped[h].Lint_Pass_Rate = 1000

====
